---- MODULE Spec2Model ----
(***************************************************************************)
(* redup: the scan-hash-aggregate pipeline of src/main.rs.                 *)
(*                                                                         *)
(* find_duplicates_from_directory runs three kinds of task: the walker     *)
(* (spawn_blocking closure, lines 269-288), the driver (the async fn       *)
(* itself, lines 290-330) and one hash task per received path (lines       *)
(* 298-301, running hash_file_contents, lines 218-253).  They share the    *)
(* bounded mpsc channel, the semaphore and the JoinSet.  run (lines        *)
(* 75-134) calls the driver and then computes the summary counters.        *)
(* find_duplicates_from_list (lines 333-420) is the same pipeline with     *)
(* another walker (lines 347-377).                                         *)
(***************************************************************************)
EXTENDS Integers, Sequences, FiniteSets, TLC

(* ------------------------------ bounds -------------------------------- *)

\* Capacity of the mpsc channel; stands for the 1000 of main.rs:262.
QueueCapacity == 1

\* Permits of the semaphore; stands for the 100 of main.rs:263.
Permits == 2

\* Largest number of regular files under the root.
MaxFiles == 4

\* Largest number of files of a tree that are copies of one another.
MaxCopies == 2

\* Width of the fingerprint: fingerprints are in 0..HashMod-1.  Stands for
\* the 2^64 values of a u64.
HashMod == 61

\* Number of times the program is run over the same tree, and the largest
\* number of files of a tree it is run again on.
MaxRuns == 2
MaxRerunFiles == 2

\* Largest number of hash tasks of a run that end without a fingerprint.
MaxFailures == 1

\* Largest number of lines of the list read from stdin, and the largest
\* number of files of the tree the lines name.
MaxRoots == 2
MaxListFiles == 2

(* ------------------------- program constants -------------------------- *)

\* vec![0u8; 8192]: the most bytes one read call returns.
ChunkSize == 8192

\* Bytes of a usize (write_length_prefix writes the length as a usize).
UsizeBytes == 8

(* ------------------------------ helpers ------------------------------- *)

Min(a, b) == IF a < b THEN a ELSE b

Range(s) == {s[i] : i \in DOMAIN s}

\* The sum of the lengths of the groups of `map` under the keys `keys`.
RECURSIVE SumLens(_, _)
SumLens(map, keys) ==
    IF keys = {} THEN 0
    ELSE LET k == CHOOSE x \in keys : TRUE
         IN Len(map[k]) + SumLens(map, keys \ {k})

(* ---------------------------- the hasher ------------------------------ *)
(* DefaultHasher is SipHash-1-3: a streaming hash, its result depends on   *)
(* the concatenation of the bytes written to it.  The 64-bit compression   *)
(* is narrowed here to a multiplicative mix modulo HashMod; what is kept   *)
(* is which bytes are written, in which order.                             *)

\* DefaultHasher::new()
HasherNew == 7

\* One byte absorbed by the hasher.
Mix(h, b) == (h * 33 + b + 1) % HashMod

\* Hasher::write(bytes)
RECURSIVE HasherWrite(_, _)
HasherWrite(h, bytes) ==
    IF bytes = <<>> THEN h ELSE HasherWrite(Mix(h, Head(bytes)), Tail(bytes))

\* usize::to_ne_bytes on a little-endian target.
RECURSIVE ToLeBytes(_, _)
ToLeBytes(n, k) ==
    IF k = 0 THEN <<>> ELSE <<n % 256>> \o ToLeBytes(n \div 256, k - 1)

\* Hasher::write_length_prefix(len) = write_usize(len)
WriteLengthPrefix(h, len) == HasherWrite(h, ToLeBytes(len, UsizeBytes))

\* buffer[..bytes_read].hash(&mut hasher): Hash for [u8] writes the length
\* of the slice and then its bytes.
HashSlice(h, chunk) == HasherWrite(WriteLengthPrefix(h, Len(chunk)), chunk)

\* hasher.finish(): a last round over the state, which is left as it was.
Finish(h) == Mix(h, 255)

(* ---------------------------- environment ----------------------------- *)

VARIABLES
    walk,             \* what WalkDir::new(directory).into_iter() yields
    disk,             \* path -> [content] of the regular files
    wpc,              \* walker: "walk", "send", "returned", "complete"
    wi,               \* walker: index of the next item of walk
    file_count,       \* walker: file_count
    sending,          \* walker: the path blocking_send is called with
    chan,             \* the paths buffered in the mpsc channel
    tx_alive,         \* the sender has not been dropped
    semaphore,        \* free permits
    dpc,              \* driver: "recv", "acquire", "spawn", "await_walker",
                      \*         "drain", "returned"
    abs_path_s,       \* driver: the path received
    permit,           \* driver: holds an acquired permit not yet moved
    queued_files,
    completed_tasks,
    failed_tasks,
    join_set,         \* the spawned tasks, in spawn order
    m,                \* the map: fingerprint -> sequence of paths
    ret,              \* what find_duplicates_from_directory returned
    rpc,              \* run: "scan", "counters", "print", "exit"
    stats,            \* run: the four summary counters
    runs,             \* number of the current run
    prev,             \* the previous run: its map, fingerprints, failures
    output            \* what print_results wrote

vars == <<walk, disk, wpc, wi, file_count, sending, chan, tx_alive, semaphore,
          dpc, abs_path_s, permit, queued_files, completed_tasks,
          failed_tasks, join_set, m, ret, rpc, stats, runs, prev,
          output>>

env == <<walk, disk>>
walkerVars == <<wpc, wi, file_count, sending>>
driverVars == <<dpc, abs_path_s, permit, queued_files, completed_tasks,
                failed_tasks>>
runVars == <<rpc, stats, runs, prev, output>>

\* Paths are numbers: the regular files are 1..n.
NoPath == 0
RootPath == 100
SubDirPath == 101

Item(k, p) == [kind |-> k, path |-> p]

\* The items WalkDir yields for a directory holding the files 1..n: the
\* root and its first file; then, when there are more, an entry that cannot
\* be read and a subdirectory with the other files.
DirItems(n) ==
    <<Item("dir", RootPath)>>
    \o (IF n >= 1 THEN <<Item("file", 1)>> ELSE <<>>)
    \o (IF n >= 2 THEN <<Item("err", NoPath), Item("dir", SubDirPath)>>
        ELSE <<>>)
    \o [i \in 1..(n - 1) |-> Item("file", i + 1)]

\* A root that does not exist: the iterator yields one Err.
MissingRootItems == <<Item("err", NoPath)>>

\* The content of file i in a tree whose first k files are copies of one
\* another, of two bytes.  The other files differ from them and from one
\* another; the first of them is empty.
ContentOf(i, k) ==
    IF i <= k THEN <<1, 1>>
    ELSE IF i = k + 1 THEN <<>>
    ELSE <<i>>

DirDisk(n, k) == [i \in 1..n |-> [content |-> ContentOf(i, k)]]

Trees ==
    {[walk |-> MissingRootItems, disk |-> <<>>]}
    \cup UNION {{[walk |-> DirItems(n), disk |-> DirDisk(n, k)] : k \in 0..Min(n, MaxCopies)} :
                  n \in 0..MaxFiles}

(* -------------------------- path spellings ---------------------------- *)
(* The numbers above are the absolute, canonical spellings of the paths.   *)
(* A path may also be spelled relative to the working directory: that      *)
(* spelling is the number RelOffset higher.                                *)

RelOffset == 1000

Relative(p) == p + RelOffset

IsAbsolute(p) == p # NoPath /\ p < RelOffset

\* std::fs::canonicalize(p) for a path that exists: its absolute spelling.
Canonicalize(p) == p % RelOffset

\* What WalkDir yields when the root is spelled relative: entry.path() is
\* the root as given joined with the names below it.
RelItems(items) ==
    [j \in DOMAIN items |->
        IF items[j].path = NoPath THEN items[j]
        ELSE Item(items[j].kind, Relative(items[j].path))]

\* File::open resolves a relative spelling to the same file.
RelDisk(d) == [p \in {Relative(i) : i \in DOMAIN d} |-> d[p - RelOffset]]

\* A symbolic link whose target does not exist: is_dir() is false for it
\* and File::open fails.
DanglingLinkPath == 102

\* The items of DirItems(n) with a dangling link among them, before the
\* last file when there is one.
LinkItems(n) ==
    LET items == DirItems(n)
        link == <<Item("link", DanglingLinkPath)>>
    IN IF n >= 1
       THEN SubSeq(items, 1, Len(items) - 1) \o link
            \o <<items[Len(items)]>>
       ELSE items \o link

\* Directories as the program may be pointed at them: the root spelled
\* relative, or a dangling link in the tree.
WiderTrees ==
    UNION {{[walk |-> RelItems(DirItems(n)), disk |-> RelDisk(DirDisk(n, k))] :
              k \in 0..Min(n, MaxCopies)} : n \in 0..MaxFiles - 1}
    \cup UNION {{[walk |-> LinkItems(n), disk |-> DirDisk(n, k)] :
                   k \in 0..Min(n, MaxCopies)} : n \in 0..MaxFiles - 1}

\* A directory whose files are copies two by two: files 1 and 2 hold the
\* same byte, files 3 and 4 another, and so on; the last file of an odd
\* number has no copy.
PairDisk(n) == [i \in 1..n |-> [content |-> <<(i + 1) \div 2>>]]

PairTrees ==
    {[walk |-> DirItems(n), disk |-> PairDisk(n)] : n \in 0..MaxFiles + 1}

(* ----------------------------- list mode ------------------------------ *)
(* find_duplicates_from_list is given the lines read from stdin.  A line   *)
(* is the spelling of a path, or empty.                                    *)

EmptyLine == NoPath
MissingPath == 999

\* The lines that may be given for a tree of n files: empty, a path that
\* does not exist, the root directory and its first file, each spelled
\* absolute or relative.
Lines(n) ==
    {EmptyLine, MissingPath, RootPath, Relative(RootPath)}
    \cup (IF n >= 1 THEN {1, Relative(1)} ELSE {})

Lists(n) == UNION {[1..len -> Lines(n)] : len \in 0..MaxRoots}

\* What one turn of the loop over files_owned (lines 349-375) goes
\* through: nothing for an empty line or one canonicalize fails on; for a
\* directory, the entries WalkDir yields for its canonical path; otherwise
\* the canonical path itself.
LineItems(line, n) ==
    IF line = EmptyLine THEN <<Item("empty", NoPath)>>
    ELSE IF line = MissingPath THEN <<Item("missing", NoPath)>>
    ELSE IF Canonicalize(line) = RootPath
         THEN <<Item("root", Canonicalize(line))>> \o DirItems(n)
         ELSE <<Item("listed", Canonicalize(line))>>

RECURSIVE ListItems(_, _)
ListItems(files, n) ==
    IF files = <<>> THEN <<>>
    ELSE LineItems(Head(files), n) \o ListItems(Tail(files), n)

ListRuns ==
    UNION {{[walk |-> ListItems(files, n), disk |-> DirDisk(n, k)] :
              files \in Lists(n), k \in 0..Min(n, MaxCopies)} :
                 n \in 0..MaxListFiles}

(* --------------------------- initial state ---------------------------- *)

EmptyMap == <<>>

NoStats == [total_files |-> 0, unique_hashes |-> 0, duplicate_groups |-> 0,
            duplicate_files |-> 0]

NoPrev == [m |-> EmptyMap, fps |-> {}, unreadable |-> {}]

\* Nothing has been written.
NoOutput == [format |-> "none"]

\* The state at the start of find_duplicates_from_directory (lines 260-264
\* and 291), the walker not yet started.
Fresh ==
    /\ wpc = "walk" /\ wi = 1 /\ file_count = 0 /\ sending = NoPath
    /\ chan = <<>> /\ tx_alive = TRUE
    /\ semaphore = Permits
    /\ dpc = "recv" /\ abs_path_s = NoPath /\ permit = FALSE
    /\ queued_files = 0 /\ completed_tasks = 0 /\ failed_tasks = 0
    /\ join_set = <<>>
    /\ m = EmptyMap
    /\ ret = "pending"
    /\ rpc = "scan" /\ stats = NoStats
    /\ output = NoOutput

Init ==
    /\ \E tree \in Trees :
         /\ walk = tree.walk
         /\ disk = tree.disk
    /\ Fresh
    /\ runs = 1
    /\ prev = NoPrev

(* ------------------------------ walker -------------------------------- *)

\* Mutant of WalkerNext: directories are sent like files.
WalkerNextSendsDirs ==
    /\ wpc = "walk"
    /\ wi <= Len(walk)
    /\ wi' = wi + 1
    /\ LET entry == walk[wi] IN
         IF entry.kind # "err"
         THEN /\ file_count' = file_count + 1
              /\ sending' = entry.path
              /\ wpc' = "send"
         ELSE UNCHANGED <<file_count, sending, wpc>>
    /\ UNCHANGED <<env, chan, tx_alive, semaphore, driverVars, join_set, m,
                   ret, runVars>>

\* One turn of the for loop of lines 271-286.  flatten() drops an Err item;
\* an entry whose path is_dir() is only printed; every other entry is
\* counted and handed to blocking_send.
WalkerNext ==
    /\ wpc = "walk"
    /\ wi <= Len(walk)
    /\ wi' = wi + 1
    /\ LET entry == walk[wi] IN
         IF entry.kind \notin {"err", "dir"}
         THEN /\ file_count' = file_count + 1
              /\ sending' = entry.path
              /\ wpc' = "send"
         ELSE UNCHANGED <<file_count, sending, wpc>>
    /\ UNCHANGED <<env, chan, tx_alive, semaphore, driverVars, join_set, m,
                   ret, runVars>>

\* One step of the walker of find_duplicates_from_list (lines 349-375).  A
\* line that names a file is counted and sent; under a line that names a
\* directory every entry that is not a directory is sent, uncounted; an
\* empty line, a line canonicalize fails on, an Err entry and a directory
\* send nothing.
WalkerListNext ==
    /\ wpc = "walk"
    /\ wi <= Len(walk)
    /\ wi' = wi + 1
    /\ LET entry == walk[wi] IN
         IF entry.kind = "listed"
         THEN /\ file_count' = file_count + 1
              /\ sending' = entry.path
              /\ wpc' = "send"
         ELSE IF entry.kind \notin {"empty", "missing", "root", "err", "dir"}
         THEN /\ sending' = entry.path
              /\ wpc' = "send"
              /\ UNCHANGED file_count
         ELSE UNCHANGED <<file_count, sending, wpc>>
    /\ UNCHANGED <<env, chan, tx_alive, semaphore, driverVars, join_set, m,
                   ret, runVars>>

\* Mutant of WalkerSend: try_send in place of blocking_send, the path being
\* lost when the channel is full.
WalkerSendLossy ==
    /\ wpc = "send"
    /\ chan' = IF Len(chan) < QueueCapacity THEN Append(chan, sending) ELSE chan
    /\ sending' = NoPath
    /\ wpc' = "walk"
    /\ UNCHANGED <<env, wi, file_count, tx_alive, semaphore, driverVars,
                   join_set, m, ret, runVars>>

\* Mutant of WalkerSend: an unbounded channel, the send never waiting.
WalkerSendUnbounded ==
    /\ wpc = "send"
    /\ chan' = Append(chan, sending)
    /\ sending' = NoPath
    /\ wpc' = "walk"
    /\ UNCHANGED <<env, wi, file_count, tx_alive, semaphore, driverVars,
                   join_set, m, ret, runVars>>

\* tx.blocking_send(abs_path) (line 282): waits while the channel is full,
\* then buffers the path.  It fails only after the receiver is dropped,
\* which the driver does not do before it has awaited the walker.
WalkerSend ==
    /\ wpc = "send"
    /\ Len(chan) < QueueCapacity
    /\ chan' = Append(chan, sending)
    /\ sending' = NoPath
    /\ wpc' = "walk"
    /\ UNCHANGED <<env, wi, file_count, tx_alive, semaphore, driverVars,
                   join_set, m, ret, runVars>>

\* The iterator is exhausted: the closure returns and drops tx (line 288).
WalkerReturn ==
    /\ wpc = "walk"
    /\ wi > Len(walk)
    /\ tx_alive' = FALSE
    /\ wpc' = "returned"
    /\ UNCHANGED <<env, wi, file_count, sending, chan, semaphore, driverVars,
                   join_set, m, ret, runVars>>

\* The blocking task completes: walker_handle becomes ready.
WalkerComplete ==
    /\ wpc = "returned"
    /\ wpc' = "complete"
    /\ UNCHANGED <<env, wi, file_count, sending, chan, tx_alive, semaphore,
                   driverVars, join_set, m, ret, runVars>>

(* ------------------------------ driver -------------------------------- *)

\* rx.recv().await (line 292): the next buffered path; None once the
\* channel is empty and the sender dropped, which ends the loop.
DriverRecv ==
    /\ dpc = "recv"
    /\ \/ /\ chan # <<>>
          /\ abs_path_s' = Head(chan)
          /\ chan' = Tail(chan)
          /\ dpc' = "acquire"
       \/ /\ chan = <<>>
          /\ ~tx_alive
          /\ dpc' = "await_walker"
          /\ UNCHANGED <<abs_path_s, chan>>
    /\ UNCHANGED <<env, walkerVars, tx_alive, semaphore, permit, queued_files,
                   completed_tasks, failed_tasks, join_set, m, ret, runVars>>

\* Mutant of DriverAcquire: the driver goes on without waiting for a permit
\* when none is free.
DriverAcquireNoWait ==
    /\ dpc = "acquire"
    /\ semaphore' = IF semaphore > 0 THEN semaphore - 1 ELSE 0
    /\ permit' = TRUE
    /\ dpc' = "spawn"
    /\ UNCHANGED <<env, walkerVars, chan, tx_alive, abs_path_s, queued_files,
                   completed_tasks, failed_tasks, join_set, m, ret, runVars>>

\* semaphore.clone().acquire_owned().await? (line 295): waits for a free
\* permit.  The semaphore is never closed, so the ? never returns.
DriverAcquire ==
    /\ dpc = "acquire"
    /\ semaphore > 0
    /\ semaphore' = semaphore - 1
    /\ permit' = TRUE
    /\ dpc' = "spawn"
    /\ UNCHANGED <<env, walkerVars, chan, tx_alive, abs_path_s, queued_files,
                   completed_tasks, failed_tasks, join_set, m, ret, runVars>>

\* A task as join_set.spawn creates it: it owns the path and the permit
\* (let _permit = permit, line 299).
NewTask(path) ==
    [path |-> path, permit |-> TRUE, st |-> "open", pos |-> 0,
     hasher |-> HasherNew, lens |-> <<>>, out |-> "pending", hash |-> 0]

\* queued_files += 1; join_set.spawn(..) (lines 297-301): the permit moves
\* into the task; the driver does not wait for it.
DriverSpawn ==
    /\ dpc = "spawn"
    /\ queued_files' = queued_files + 1
    /\ join_set' = Append(join_set, NewTask(abs_path_s))
    /\ permit' = FALSE
    /\ abs_path_s' = NoPath
    /\ dpc' = "recv"
    /\ UNCHANGED <<env, walkerVars, chan, tx_alive, semaphore,
                   completed_tasks, failed_tasks, m, ret, runVars>>

\* Mutant of DriverAwaitWalker: the driver goes on to the join loop without
\* waiting for the walker task.
DriverAwaitWalkerNoWait ==
    /\ dpc = "await_walker"
    /\ dpc' = "drain"
    /\ UNCHANGED <<env, walkerVars, chan, tx_alive, semaphore, abs_path_s,
                   permit, queued_files, completed_tasks, failed_tasks,
                   join_set, m, ret, runVars>>

\* let _ = walker_handle.await (line 306)
DriverAwaitWalker ==
    /\ dpc = "await_walker"
    /\ wpc = "complete"
    /\ dpc' = "drain"
    /\ UNCHANGED <<env, walkerVars, chan, tx_alive, semaphore, abs_path_s,
                   permit, queued_files, completed_tasks, failed_tasks,
                   join_set, m, ret, runVars>>

\* Mutant of EntryPush: the path is stored only when the fingerprint is new.
EntryPushIfAbsent(map, hash, path) ==
    IF hash \in DOMAIN map THEN map ELSE map @@ (hash :> <<path>>)

\* Mutant of EntryPush: the path is put at the head of an existing group.
EntryPushFront(map, hash, path) ==
    IF hash \in DOMAIN map
    THEN [map EXCEPT ![hash] = <<path>> \o @]
    ELSE map @@ (hash :> <<path>>)

\* m.entry(hash).or_default().push(path) (line 316)
EntryPush(map, hash, path) ==
    IF hash \in DOMAIN map
    THEN [map EXCEPT ![hash] = Append(@, path)]
    ELSE map @@ (hash :> <<path>>)

\* Mutant of DriverJoinNext: a failed outcome ends the loop and is returned
\* as the error of the function.
DriverJoinNextAbort ==
    /\ dpc = "drain"
    /\ \/ \E t \in DOMAIN join_set :
            /\ join_set[t].st = "finished"
            /\ join_set' = [join_set EXCEPT ![t].st = "joined"]
            /\ IF join_set[t].out = "some"
               THEN /\ completed_tasks' = completed_tasks + 1
                    /\ m' = EntryPush(m, join_set[t].hash, join_set[t].path)
                    /\ UNCHANGED <<failed_tasks, dpc, ret>>
               ELSE /\ failed_tasks' = failed_tasks + 1
                    /\ dpc' = "returned"
                    /\ ret' = "Err"
                    /\ UNCHANGED <<completed_tasks, m>>
       \/ /\ \A t \in DOMAIN join_set : join_set[t].st = "joined"
          /\ dpc' = "returned"
          /\ ret' = "Ok"
          /\ UNCHANGED <<join_set, completed_tasks, failed_tasks, m>>
    /\ UNCHANGED <<env, walkerVars, chan, tx_alive, semaphore, abs_path_s,
                   permit, queued_files, runVars>>

\* Mutant of DriverJoinNext: try_join_next in place of join_next().await,
\* the loop ending when no outcome is ready.
DriverJoinNextNoWait ==
    /\ dpc = "drain"
    /\ \/ \E t \in DOMAIN join_set :
            /\ join_set[t].st = "finished"
            /\ join_set' = [join_set EXCEPT ![t].st = "joined"]
            /\ IF join_set[t].out = "some"
               THEN /\ completed_tasks' = completed_tasks + 1
                    /\ m' = EntryPush(m, join_set[t].hash, join_set[t].path)
                    /\ UNCHANGED failed_tasks
               ELSE /\ failed_tasks' = failed_tasks + 1
                    /\ UNCHANGED <<completed_tasks, m>>
            /\ UNCHANGED <<dpc, ret>>
       \/ /\ \A t \in DOMAIN join_set : join_set[t].st # "finished"
          /\ dpc' = "returned"
          /\ ret' = "Ok"
          /\ UNCHANGED <<join_set, completed_tasks, failed_tasks, m>>
    /\ UNCHANGED <<env, walkerVars, chan, tx_alive, semaphore, abs_path_s,
                   permit, queued_files, runVars>>

\* One turn of the loop of lines 311-327: join_next().await yields the
\* outcome of some finished task not yet joined, in no fixed order; it
\* yields None when every task has been joined, and the function returns
\* Ok(()) (line 330).
DriverJoinNext ==
    /\ dpc = "drain"
    /\ \/ \E t \in DOMAIN join_set :
            /\ join_set[t].st = "finished"
            /\ join_set' = [join_set EXCEPT ![t].st = "joined"]
            /\ IF join_set[t].out = "some"
               THEN /\ completed_tasks' = completed_tasks + 1
                    /\ m' = EntryPush(m, join_set[t].hash, join_set[t].path)
                    /\ UNCHANGED failed_tasks
               ELSE /\ failed_tasks' = failed_tasks + 1
                    /\ UNCHANGED <<completed_tasks, m>>
            /\ UNCHANGED <<dpc, ret>>
       \/ /\ \A t \in DOMAIN join_set : join_set[t].st = "joined"
          /\ dpc' = "returned"
          /\ ret' = "Ok"
          /\ UNCHANGED <<join_set, completed_tasks, failed_tasks, m>>
    /\ UNCHANGED <<env, walkerVars, chan, tx_alive, semaphore, abs_path_s,
                   permit, queued_files, runVars>>

(* ----------------------------- hash task ------------------------------ *)

\* Mutant of TaskEnd: the permit stays with the finished task until the task
\* is joined.
TaskEndKeepPermit(t, out, hash) ==
    /\ join_set' = [join_set EXCEPT ![t].st = "finished", ![t].out = out,
                                    ![t].hash = hash]
    /\ UNCHANGED semaphore

\* Mutant of TaskEnd: the permit is returned only by a task that succeeds.
TaskEndLeakOnFailure(t, out, hash) ==
    /\ join_set' = [join_set EXCEPT ![t].st = "finished", ![t].out = out,
                                    ![t].hash = hash,
                                    ![t].permit = (out # "some")]
    /\ semaphore' = IF out = "some" THEN semaphore + 1 ELSE semaphore

\* Mutant of TaskEnd: a task that panics keeps its permit until its outcome
\* has been taken.
TaskEndPanicKeepsPermit(t, out, hash) ==
    /\ join_set' = [join_set EXCEPT ![t].st = "finished", ![t].out = out,
                                    ![t].hash = hash,
                                    ![t].permit = (out = "panic")]
    /\ semaphore' = IF out = "panic" THEN semaphore ELSE semaphore + 1

\* The task's future ends (by return or by panic): its locals are dropped,
\* _permit among them, which puts the permit back; the outcome is stored
\* for the JoinSet after the future has ended.
TaskEnd(t, out, hash) ==
    /\ join_set' = [join_set EXCEPT ![t].st = "finished", ![t].out = out,
                                    ![t].hash = hash, ![t].permit = FALSE]
    /\ semaphore' = semaphore + 1

\* The tasks that ended without a fingerprint.
Failed == {t \in DOMAIN join_set : join_set[t].out \in {"none", "panic"}}

\* A file may turn out unreadable, or its task may panic, at most
\* MaxFailures times in a run.
MayFail == Cardinality(Failed) < MaxFailures

\* File::open(&file_path).await (lines 221-227): it fails for a path that
\* names no file, and may fail for one that does; an Err becomes None by
\* .ok() (line 300).  A panic of the task, taken here at its first poll, is
\* a JoinError for the driver.
TaskOpen(t) ==
    /\ join_set[t].st = "open"
    /\ \/ /\ join_set[t].path \in DOMAIN disk
          /\ join_set' = [join_set EXCEPT ![t].st = "read"]
          /\ UNCHANGED semaphore
       \/ /\ MayFail \/ join_set[t].path \notin DOMAIN disk
          /\ TaskEnd(t, "none", 0)
       \/ /\ MayFail
          /\ TaskEnd(t, "panic", 0)
    /\ UNCHANGED <<env, walkerVars, chan, tx_alive, driverVars, m, ret,
                   runVars>>

\* One turn of the loop of lines 234-248: a read returns 1..8192 of the
\* remaining bytes, which are hashed as a slice; it returns 0 at the end of
\* the file, and the fingerprint is returned (lines 250-252); or it fails.
TaskRead(t) ==
    /\ join_set[t].st = "read"
    /\ LET task == join_set[t]
           content == disk[task.path].content
           left == Len(content) - task.pos
       IN
         \/ /\ left > 0
            /\ \E bytes_read \in 1..Min(ChunkSize, left) :
                 join_set' = [join_set EXCEPT
                   ![t].pos = task.pos + bytes_read,
                   ![t].lens = Append(task.lens, bytes_read),
                   ![t].hasher =
                       HashSlice(task.hasher,
                                 SubSeq(content, task.pos + 1,
                                        task.pos + bytes_read))]
            /\ UNCHANGED semaphore
         \/ /\ left = 0
            /\ TaskEnd(t, "some", Finish(task.hasher))
         \/ /\ MayFail
            /\ TaskEnd(t, "none", 0)
    /\ UNCHANGED <<env, walkerVars, chan, tx_alive, driverVars, m, ret,
                   runVars>>

(* -------------------------------- run --------------------------------- *)

\* Mutant of Counters: duplicate_files counts the copies beyond the first
\* of each duplicate group.
CountersExtraCopies(map) ==
    LET dups == {h \in DOMAIN map : Len(map[h]) > 1} IN
    [total_files      |-> SumLens(map, DOMAIN map),
     unique_hashes    |-> Cardinality(DOMAIN map),
     duplicate_groups |-> Cardinality(dups),
     duplicate_files  |-> SumLens(map, dups) - Cardinality(dups)]

\* Lines 117-120.
Counters(map) ==
    LET dups == {h \in DOMAIN map : Len(map[h]) > 1} IN
    [total_files      |-> SumLens(map, DOMAIN map),
     unique_hashes    |-> Cardinality(DOMAIN map),
     duplicate_groups |-> Cardinality(dups),
     duplicate_files  |-> SumLens(map, dups)]

\* find_duplicates_from_directory returned Ok (line 105): run computes the
\* summary counters (lines 117-125).  The Err arm of line 105 is never
\* taken, the function having no path that returns Err.
RunCounters ==
    /\ rpc = "scan"
    /\ ret = "Ok"
    /\ stats' = Counters(m)
    /\ rpc' = "print"
    /\ UNCHANGED <<env, walkerVars, chan, tx_alive, semaphore, driverVars,
                   join_set, m, ret, runs, prev, output>>

(* ----------------------------- the writers ---------------------------- *)
(* The three writers go through the map in the order the HashMap iterates  *)
(* in, which is arbitrary: `keys` is the keys of the map in that order.    *)

\* The orders a set may be iterated in.
Orders(S) ==
    {f \in [1..Cardinality(S) -> S] : \A x \in S : \E i \in DOMAIN f : f[i] = x}

\* format!("{:x}", hash): the hexadecimal digits of the fingerprint.
RECURSIVE Hex(_)
Hex(n) == IF n < 16 THEN <<n>> ELSE Hex(n \div 16) \o <<n % 16>>

Line(kind, path) == [kind |-> kind, path |-> path]

\* Mutant of TextLines: the groups of one member are written too.
RECURSIVE TextLinesAll(_, _)
TextLinesAll(map, keys) ==
    IF keys = <<>> THEN <<>>
    ELSE LET item == map[Head(keys)] IN
         (<<Line("-", NoPath)>> \o [i \in DOMAIN item |-> Line("path", item[i])])
         \o TextLinesAll(map, Tail(keys))

\* The loop of lines 447-455: a group of one is skipped; for the others a
\* line "-" and then one line for each path.
RECURSIVE TextLines(_, _)
TextLines(map, keys) ==
    IF keys = <<>> THEN <<>>
    ELSE LET item == map[Head(keys)] IN
         (IF Len(item) <= 1 THEN <<>>
          ELSE <<Line("-", NoPath)>>
               \o [i \in DOMAIN item |-> Line("path", item[i])])
         \o TextLines(map, Tail(keys))

\* print_results_text (lines 431-458): unless quiet, a first line that says
\* whether duplicates were found; then the groups.
PrintResultsText(map, keys, quiet) ==
    LET duplicates_found == \E h \in DOMAIN map : Len(map[h]) > 1 IN
    [format |-> "text",
     lines |-> (IF quiet THEN <<>>
                ELSE <<Line(IF duplicates_found THEN "DUPLICATES FOUND!"
                            ELSE "No Duplicates Found!", NoPath)>>)
               \o TextLines(map, keys)]

\* The loop of lines 464-475: group_id is raised for each group of two or
\* more, and one record is pushed for each of its files.
RECURSIVE GroupRecords(_, _, _)
GroupRecords(map, keys, group_id) ==
    IF keys = <<>> THEN <<>>
    ELSE LET hash == Head(keys)
             files == map[hash]
         IN IF Len(files) > 1
            THEN [i \in DOMAIN files |->
                    [hash |-> Hex(hash), file_path |-> files[i],
                     group_id |-> group_id + 1]]
                 \o GroupRecords(map, Tail(keys), group_id + 1)
            ELSE GroupRecords(map, Tail(keys), group_id)

\* print_results_csv (lines 460-502): the header record and the records.
PrintResultsCsv(map, keys) ==
    [format |-> "csv",
     header |-> <<"hash", "file_path", "group_id">>,
     records |-> GroupRecords(map, keys, 0)]

\* The loop of lines 540-556 on the tables built so far: for a group of
\* two or more a row of duplicate_groups, whose id is the next rowid, and a
\* row of duplicate_files for each file.
RECURSIVE InsertGroups(_, _, _)
InsertGroups(map, keys, db) ==
    IF keys = <<>> THEN db
    ELSE LET hash == Head(keys)
             files == map[hash]
             group_id == Len(db.duplicate_groups) + 1
         IN IF Len(files) > 1
            THEN InsertGroups(map, Tail(keys),
                   [duplicate_groups |->
                       Append(db.duplicate_groups,
                              [id |-> group_id, hash |-> Hex(hash)]),
                    duplicate_files |->
                       db.duplicate_files
                       \o [i \in DOMAIN files |->
                             [id |-> Len(db.duplicate_files) + i,
                              group_id |-> group_id,
                              file_path |-> files[i]]]])
            ELSE InsertGroups(map, Tail(keys), db)

\* print_results_db (lines 504-567) with --output given: the database file
\* is removed when it exists, and the two tables are created empty.
PrintResultsDb(map, keys) ==
    LET db == InsertGroups(map, keys,
                           [duplicate_groups |-> <<>>, duplicate_files |-> <<>>])
    IN [format |-> "db",
        duplicate_groups |-> db.duplicate_groups,
        duplicate_files |-> db.duplicate_files]

\* print_results (lines 422-429) for the formats and the quiet flag the
\* program may be run with.
Rendered(map, keys) ==
    {PrintResultsText(map, keys, quiet) : quiet \in BOOLEAN}
    \cup {PrintResultsCsv(map, keys), PrintResultsDb(map, keys)}

\* Mutant of RunPrint: the output stage uses its &mut to take the groups out
\* of the map as it writes them.
RunPrintTakesGroups ==
    /\ rpc = "print"
    /\ rpc' = "exit"
    /\ \E keys \in Orders(DOMAIN m) : output' \in Rendered(m, keys)
    /\ m' = [h \in {k \in DOMAIN m : Len(m[k]) <= 1} |-> m[h]]
    /\ UNCHANGED <<env, walkerVars, chan, tx_alive, semaphore, driverVars,
                   join_set, ret, stats, runs, prev>>

\* print_results(&mut m, &config) (line 128): the map is handed to the
\* output stage; the writer of the format asked for iterates over it
\* (m.values(), m.iter(), lines 447, 464, 540) and does not change it.
RunPrint ==
    /\ rpc = "print"
    /\ rpc' = "exit"
    /\ \E keys \in Orders(DOMAIN m) : output' \in Rendered(m, keys)
    /\ UNCHANGED <<env, walkerVars, chan, tx_alive, semaphore, driverVars,
                   join_set, m, ret, stats, runs, prev>>

\* The membership sets of the groups of a map.
GroupSets(map) == {Range(map[h]) : h \in DOMAIN map}

\* The (path, fingerprint) pairs the hash tasks returned.
Fingerprints ==
    {<<join_set[t].path, join_set[t].hash>> :
        t \in {u \in DOMAIN join_set : join_set[u].out = "some"}}

\* The paths whose hash task ended without a fingerprint.
Unreadable == {join_set[t].path : t \in Failed}

\* The program is started again on the same, unchanged tree (main, lines
\* 60-67): everything but the tree starts afresh.  The map of the run that
\* ended, the fingerprints its tasks returned and the paths it could not
\* hash are kept in prev, for comparison.
Rerun ==
    /\ rpc = "exit"
    /\ runs < MaxRuns
    /\ runs' = runs + 1
    /\ prev' = [m |-> m, fps |-> Fingerprints, unreadable |-> Unreadable]
    /\ wpc' = "walk" /\ wi' = 1 /\ file_count' = 0 /\ sending' = NoPath
    /\ chan' = <<>> /\ tx_alive' = TRUE
    /\ semaphore' = Permits
    /\ dpc' = "recv" /\ abs_path_s' = NoPath /\ permit' = FALSE
    /\ queued_files' = 0 /\ completed_tasks' = 0 /\ failed_tasks' = 0
    /\ join_set' = <<>>
    /\ m' = EmptyMap
    /\ ret' = "pending"
    /\ rpc' = "scan" /\ stats' = NoStats
    /\ output' = NoOutput
    /\ UNCHANGED env

(* --------------------------- specification ---------------------------- *)

Walker == WalkerNext \/ WalkerSend \/ WalkerReturn \/ WalkerComplete

Driver ==
    DriverRecv \/ DriverAcquire \/ DriverSpawn \/ DriverAwaitWalker
    \/ DriverJoinNext

Task(t) == TaskOpen(t) \/ TaskRead(t)

Tasks == \E t \in DOMAIN join_set : Task(t)

Run == RunCounters \/ RunPrint

Next == Walker \/ Driver \/ Tasks \/ Run

Spec == Init /\ [][Next]_vars

\* The program pointed at the wider directories.
InitWider ==
    /\ \E tree \in WiderTrees :
         /\ walk = tree.walk
         /\ disk = tree.disk
    /\ Fresh
    /\ runs = 1
    /\ prev = NoPrev

SpecWider == InitWider /\ [][Next]_vars

\* The program pointed at the directories of copies.
InitPairs ==
    /\ \E tree \in PairTrees :
         /\ walk = tree.walk
         /\ disk = tree.disk
    /\ Fresh
    /\ runs = 1
    /\ prev = NoPrev

SpecPairs == InitPairs /\ [][Next]_vars

\* The program run with --stdin: run calls find_duplicates_from_list (line
\* 98), whose driver is the code of find_duplicates_from_directory line for
\* line (lines 379-419) and whose hash tasks are the same.
WalkerList ==
    WalkerListNext \/ WalkerSend \/ WalkerReturn \/ WalkerComplete

NextList == WalkerList \/ Driver \/ Tasks \/ Run

InitList ==
    /\ \E r \in ListRuns :
         /\ walk = r.walk
         /\ disk = r.disk
    /\ Fresh
    /\ runs = 1
    /\ prev = NoPrev

SpecList == InitList /\ [][NextList]_vars

\* The program run MaxRuns times over one tree.
NextRerun == Next \/ Rerun

InitRerun == Init /\ Len(disk) <= MaxRerunFiles

SpecRerun == InitRerun /\ [][NextRerun]_vars

\* The scheduler runs every task that can take a step: the walker on its
\* blocking thread, the driver and the hash tasks on the runtime.  The
\* trees are those without copies: which steps can be taken does not depend
\* on what the files hold.
InitFair == Init /\ \A i \in DOMAIN disk : Len(disk[i].content) <= 1

SpecFair ==
    InitFair /\ [][Next]_vars
    /\ WF_vars(Walker) /\ WF_vars(Driver) /\ WF_vars(Tasks) /\ WF_vars(Run)

(* ------------------------------ notions ------------------------------- *)

\* The driver's loop over the join set has ended and the function returned
\* Ok: the map is finished.
Aggregated == dpc = "returned" /\ ret = "Ok"

\* The regular files WalkDir yields.
DiscoveredFiles ==
    {walk[i].path : i \in {j \in DOMAIN walk : walk[j].kind = "file"}}

\* The hash tasks dispatched and not yet finished.
InFlight == {t \in DOMAIN join_set : join_set[t].st \in {"open", "read"}}

\* The tasks that returned a fingerprint.
Hashed == {t \in DOMAIN join_set : join_set[t].out = "some"}

\* How many times path p occurs in the group under h, and in the map.
CountIn(group, p) == Cardinality({i \in DOMAIN group : group[i] = p})

RECURSIVE CountOver(_, _, _)
CountOver(map, keys, p) ==
    IF keys = {} THEN 0
    ELSE LET k == CHOOSE x \in keys : TRUE
         IN CountIn(map[k], p) + CountOver(map, keys \ {k}, p)

Occurrences(map, p) == CountOver(map, DOMAIN map, p)

MapPaths(map) == UNION {Range(map[h]) : h \in DOMAIN map}

SameGroup(map, p, q) ==
    \E h \in DOMAIN map : p \in Range(map[h]) /\ q \in Range(map[h])

(* ------------------------------- claims ------------------------------- *)

\* C1: when no file of the tree fails to hash, the finished map holds every
\* discovered file exactly once, and nothing else, however many files there
\* are and in whatever order the tasks end and are joined.
C1_ExactlyOnePerFile ==
    (Aggregated /\ Failed = {}) =>
        /\ \A p \in DiscoveredFiles : Occurrences(m, p) = 1
        /\ MapPaths(m) \subseteq DiscoveredFiles
        /\ SumLens(m, DOMAIN m) = Cardinality(DiscoveredFiles)

\* More files than queue capacity plus permits, all hashed, and a group
\* whose members arrived against the order of discovery.
C1_Witness ==
    /\ Aggregated /\ Failed = {}
    /\ Cardinality(DiscoveredFiles) > QueueCapacity + Permits
    /\ SumLens(m, DOMAIN m) = Cardinality(DiscoveredFiles)
    /\ \E h \in DOMAIN m : Len(m[h]) = 2 /\ m[h][1] > m[h][2]

\* C2: the hash tasks dispatched and not finished are never more than the
\* permits, each of them holds a permit that is out of the pool, and the
\* driver holds a permit when it spawns.
C2_AtMostPermitsInFlight ==
    /\ Cardinality(InFlight) <= Permits
    /\ Cardinality(InFlight) <= Permits - semaphore - (IF permit THEN 1 ELSE 0)
    /\ dpc = "spawn" => permit

\* All permits are with running tasks and the driver waits for one.
C2_Witness ==
    /\ Cardinality(InFlight) = Permits
    /\ semaphore = 0
    /\ dpc = "acquire"

C4_FailureIsolated ==
    /\ ret # "Err"
    /\ Aggregated =>
        /\ \A t \in Failed : join_set[t].path \notin MapPaths(m)
        /\ \A t \in Hashed : Occurrences(m, join_set[t].path) = 1
        /\ failed_tasks = Cardinality(Failed)
        /\ completed_tasks = Cardinality(Hashed)
        /\ {join_set[t].path : t \in DOMAIN join_set} = DiscoveredFiles
        /\ wi > Len(walk)
        /\ \A t \in DOMAIN join_set : join_set[t].st = "joined"

\* A read failed partway through a file, and the other files are in the map.
C4_Witness ==
    /\ Aggregated
    /\ \E t \in Failed : join_set[t].out = "none" /\ join_set[t].pos > 0
    /\ completed_tasks = Cardinality(DiscoveredFiles) - 1
    /\ completed_tasks >= 2

\* C5: a root that does not exist is a fatal error: the function does not
\* return Ok, no hash task is started and run does not go on to the
\* counters and the output stage.
C5_MissingRootIsFatal ==
    walk = MissingRootItems =>
        /\ ret # "Ok"
        /\ join_set = <<>>
        /\ rpc = "scan"

\* C6: under fair scheduling the pipeline reaches the Aggregated state.
C6_EventuallyAggregated == <>Aggregated

\* More files than queue capacity plus permits: every permit is with a
\* running task, the driver waits for one with a path in hand, and the
\* queue is full.
C6_Witness ==
    /\ Cardinality(DiscoveredFiles) > QueueCapacity + Permits
    /\ dpc = "acquire" /\ semaphore = 0
    /\ Cardinality(InFlight) = Permits
    /\ Len(chan) = QueueCapacity

\* The paths of the regular files among `items`, in order.
RECURSIVE FilesAmong(_)
FilesAmong(items) ==
    IF items = <<>> THEN <<>>
    ELSE (IF Head(items).kind = "file" THEN <<Head(items).path>> ELSE <<>>)
         \o FilesAmong(Tail(items))

\* The paths the driver has received, in order.
Received ==
    [t \in DOMAIN join_set |-> join_set[t].path]
    \o (IF dpc \in {"acquire", "spawn"} THEN <<abs_path_s>> ELSE <<>>)

\* C7: the channel never buffers more than its capacity, and the files the
\* walker has come to are, in order and each once, those the driver
\* received, those buffered and the one the walker is sending.
C7_BoundedQueue ==
    /\ Len(chan) <= QueueCapacity
    /\ FilesAmong(SubSeq(walk, 1, wi - 1))
         = Received \o chan \o (IF wpc = "send" THEN <<sending>> ELSE <<>>)

\* The walker is suspended in blocking_send on a full channel.
C7_Witness ==
    /\ wpc = "send"
    /\ sending # NoPath
    /\ Len(chan) = QueueCapacity

\* C8: the free permits, those of the unfinished tasks and the one the
\* driver holds between acquire and spawn add up to the permit count, and
\* all permits are free once the pipeline is Aggregated.
C8_PermitsConserved ==
    /\ semaphore + Cardinality(InFlight) + (IF permit THEN 1 ELSE 0) = Permits
    /\ Aggregated => semaphore = Permits

\* More tasks than permits were run, one of them panicked, and all permits
\* are back.
C8_Witness ==
    /\ Aggregated
    /\ queued_files > Permits
    /\ \E t \in Failed : join_set[t].out = "panic"
    /\ semaphore = Permits

\* C9: a second run over the same tree in which the files have the same
\* fingerprints and the same files cannot be hashed ends with groups of the
\* same membership sets as the first.
C9_SameGroupsOnRerun ==
    (/\ runs > 1
     /\ Aggregated
     /\ Fingerprints = prev.fps
     /\ Unreadable = prev.unreadable)
        => GroupSets(m) = GroupSets(prev.m)

\* A second run with the same fingerprints whose map differs from the
\* first's in the order of a group's members.
C9_Witness ==
    /\ runs > 1
    /\ Aggregated
    /\ Fingerprints = prev.fps
    /\ Unreadable = prev.unreadable
    /\ m # prev.m
    /\ \E h \in DOMAIN m : Len(m[h]) = 2

\* C10: two hashed files of the same content have the same fingerprint,
\* however the reads split the content into chunks.
C10_FingerprintOfContentAlone ==
    \A t, u \in Hashed :
        disk[join_set[t].path].content = disk[join_set[u].path].content
            => join_set[t].hash = join_set[u].hash

\* The paths the driver dispatched a hash task for.
Dispatched == [t \in DOMAIN join_set |-> join_set[t].path]

\* C11: in list mode no path is dispatched twice and no path occurs twice
\* in the finished map, whatever lines are given.
C11_ListPathsOnce ==
    /\ \A t, u \in DOMAIN join_set :
         t # u => Dispatched[t] # Dispatched[u]
    /\ Aggregated => \A p \in MapPaths(m) : Occurrences(m, p) = 1

\* The paths the walker has handed to blocking_send.
Pushed ==
    Range(Received) \cup Range(chan)
    \cup (IF wpc = "send" THEN {sending} ELSE {})

\* C12: in directory mode the paths pushed into the queue are regular
\* files of the tree, and once the walker has returned they are all the
\* regular files of the tree, those that follow an unreadable entry
\* included.
C12_PushedAreTheRegularFiles ==
    /\ Pushed \subseteq DiscoveredFiles
    /\ wpc \in {"returned", "complete"} =>
         /\ wi > Len(walk)
         /\ Pushed = DiscoveredFiles

\* C13: every path of the finished map is spelled absolute and is its own
\* canonical form.
C13_MapPathsCanonical ==
    Aggregated =>
        \A p \in MapPaths(m) : IsAbsolute(p) /\ Canonicalize(p) = p

\* The root is a directory that exists and holds nothing.
EmptyRoot == walk = DirItems(0)

AllZero ==
    /\ stats.total_files = 0 /\ stats.unique_hashes = 0
    /\ stats.duplicate_groups = 0 /\ stats.duplicate_files = 0

\* C14: on an empty directory no hash task is dispatched and the map stays
\* empty; the run reaches the Aggregated state and stays there, with an
\* empty map, and its four counters are computed as zero.
C14_EmptyDirectory ==
    /\ [](EmptyRoot =>
            /\ m = EmptyMap /\ join_set = <<>> /\ queued_files = 0
            /\ ret # "Err"
            /\ AllZero)
    /\ (EmptyRoot => <>[](Aggregated /\ m = EmptyMap /\ rpc = "exit"))

\* The run over the empty directory is over: the walker came to the root
\* only, and the counters were computed from the empty map.
C14_Witness ==
    /\ EmptyRoot
    /\ Aggregated /\ wpc = "complete" /\ wi = 2 /\ file_count = 0
    /\ rpc = "exit"
    /\ m = EmptyMap /\ AllZero

\* The driver's phase: 1 while it receives and dispatches (Discovering +
\* Hashing), 2 in the join loop (Draining), 3 once it returned
\* (Aggregated).  Idle is the initial state.
Phase ==
    IF dpc = "returned" THEN 3
    ELSE IF dpc = "drain" THEN 2
    ELSE 1

Draining == dpc \in {"drain", "returned"}

\* C15: the phase never decreases; draining begins only after recv
\* reported the channel closed and empty and the walker task completed;
\* before draining no outcome has been taken and the map is empty; once
\* draining has begun the walker and the channel do not change and no task
\* is dispatched.
C15_PhasesForward ==
    /\ [][Phase' >= Phase]_vars
    /\ [](Draining =>
            /\ wpc = "complete" /\ wi > Len(walk)
            /\ ~tx_alive /\ chan = <<>>)
    /\ [](~Draining =>
            /\ m = EmptyMap
            /\ completed_tasks = 0 /\ failed_tasks = 0
            /\ \A t \in DOMAIN join_set : join_set[t].st # "joined")
    /\ [][Draining =>
            /\ UNCHANGED <<walkerVars, chan, tx_alive, queued_files>>
            /\ Len(join_set') = Len(join_set)]_vars

\* Draining with stragglers: outcomes have been taken into the map while
\* other tasks are still hashing.
C15_Witness ==
    /\ dpc = "drain"
    /\ m # EmptyMap
    /\ InFlight # {}
    /\ \E t \in DOMAIN join_set : join_set[t].st = "finished"

\* The tasks whose outcome join_next has yielded: they are out of the join
\* collection.
Joined == {t \in DOMAIN join_set : join_set[t].st = "joined"}

\* C16: every dispatched task is in the join collection and is counted
\* in queued_files; each outcome taken raises one of the two counters by
\* one, and a task whose outcome was taken is never yielded again; when the
\* join loop has ended no task is left in the collection and
\* queued_files = completed_tasks + failed_tasks.
C16_JoinedExactlyOnce ==
    /\ [](/\ queued_files = Len(join_set)
          /\ completed_tasks + failed_tasks = Cardinality(Joined))
    /\ [](Aggregated =>
            /\ Joined = DOMAIN join_set
            /\ queued_files = completed_tasks + failed_tasks)
    /\ [][/\ \A t \in Joined : join_set'[t] = join_set[t]
          /\ Cardinality(Joined') <= Cardinality(Joined) + 1]_vars

\* More tasks than permits, one of them failed, and two copies joined
\* against the order they were dispatched in.
C16_Witness ==
    /\ Aggregated
    /\ queued_files > Permits
    /\ failed_tasks = 1
    /\ \E t, u \in Joined :
         /\ t < u
         /\ \E h \in DOMAIN m : m[h] = <<join_set[u].path, join_set[t].path>>

\* The tasks that still own their permit.
Holding == {t \in DOMAIN join_set : join_set[t].permit}

\* C17: a task whose outcome is ready or was taken, be it Some, None or a
\* join error, no longer owns its permit: the permits are owned by the
\* running tasks only; when the driver takes an outcome every permit not
\* owned by a running task is in the pool, and taking the outcome does not
\* change the pool.
C17_PermitBackBeforeOutcome ==
    /\ [](\A t \in DOMAIN join_set :
            join_set[t].st \in {"finished", "joined"} => t \notin Holding)
    /\ [](Holding = InFlight)
    /\ [][Joined' # Joined =>
            /\ semaphore = Permits - Cardinality(InFlight)
            /\ semaphore' = semaphore]_vars

\* Outcomes of the three kinds have been taken or are ready, and every
\* permit is in the pool.
C17_Witness ==
    /\ dpc = "drain"
    /\ semaphore = Permits
    /\ \E t \in Joined : join_set[t].out = "panic"
    /\ \E t \in Joined : join_set[t].out = "some"
    /\ \E t \in DOMAIN join_set :
         join_set[t].st = "finished" /\ join_set[t].out = "some"

\* The group of `map` under h; empty when h is not a key.
GroupOf(map, h) == IF h \in DOMAIN map THEN map[h] ELSE <<>>

\* The driver takes the outcome of task t in this step.
Drains(t) == t \in Joined' \ Joined

\* C18: a step in which the driver drains a successful outcome (h, p)
\* makes the group under h its members before the step followed by p, a
\* singleton when h was not a key; it adds no other key and leaves every
\* other group as it was.  So a group lists its paths in the order they
\* were drained.
C18_AppendAtTail ==
    [][\A t \in DOMAIN join_set :
         (Drains(t) /\ join_set[t].out = "some") =>
            LET h == join_set[t].hash
                p == join_set[t].path
            IN /\ DOMAIN m' = DOMAIN m \cup {h}
               /\ m'[h] = GroupOf(m, h) \o <<p>>
               /\ h \notin DOMAIN m => m'[h] = <<p>>
               /\ \A k \in DOMAIN m \ {h} : m'[k] = m[k]]_vars

\* In the join loop, with outcomes still to take: a group of two whose
\* members were drained against the order of discovery, beside another
\* group.
C18_Witness ==
    /\ dpc = "drain"
    /\ \E t \in DOMAIN join_set : join_set[t].st = "finished"
    /\ \E h, k \in DOMAIN m :
         /\ h # k
         /\ Len(m[h]) = 2 /\ m[h][1] > m[h][2]

\* C19: the map changes only in a step of the join loop in which the driver
\* takes a successful outcome; taking a failed outcome leaves it as it is,
\* and so does every step once the pipeline is Aggregated, the computation
\* of the counters and print_results among them.
C19_MapChangesOnlyInDrain ==
    /\ [][m' # m =>
            /\ dpc = "drain" /\ dpc' = "drain"
            /\ \E t \in DOMAIN join_set :
                 Drains(t) /\ join_set[t].out = "some"]_vars
    /\ [][(\E t \in DOMAIN join_set : Drains(t) /\ join_set[t].out # "some")
            => m' = m]_vars
    /\ [][Aggregated => m' = m]_vars

\* The run is over, a failed outcome was drained, the counters were
\* computed and the results printed, and the map holds a duplicate group.
C19_Witness ==
    /\ rpc = "exit"
    /\ Aggregated
    /\ failed_tasks = 1
    /\ stats.duplicate_groups = 1
    /\ \E h \in DOMAIN m : Len(m[h]) = 2

\* The keys of the groups of m with at least two members.
DuplicateKeys == {h \in DOMAIN m : Len(m[h]) >= 2}

\* C20: the counters run computed are those of the run: total_files is
\* the number of tasks that returned a fingerprint, as counted by
\* completed_tasks; unique_hashes is the number of groups;
\* duplicate_groups is the number of groups of two or more;
\* duplicate_files is the number of paths in those groups, hence at least
\* twice duplicate_groups and at most total_files; the other files are one
\* to a group.
C20_CountersConsistent ==
    rpc \in {"print", "exit"} =>
        /\ Aggregated
        /\ stats.total_files = completed_tasks
        /\ stats.total_files = Cardinality(Hashed)
        /\ stats.unique_hashes = Cardinality(DOMAIN m)
        /\ stats.duplicate_groups = Cardinality(DuplicateKeys)
        /\ stats.duplicate_files
             = Cardinality({t \in Hashed : join_set[t].hash \in DuplicateKeys})
        /\ stats.duplicate_files >= 2 * stats.duplicate_groups
        /\ stats.duplicate_files <= stats.total_files
        /\ stats.total_files - stats.duplicate_files
             = stats.unique_hashes - stats.duplicate_groups

\* The counters of a run over four files: one could not be hashed, two
\* are copies in one group, one is alone in its group.
C20_Witness ==
    /\ rpc = "print"
    /\ queued_files = 4 /\ failed_tasks = 1
    /\ stats = [total_files |-> 3, unique_hashes |-> 2,
                duplicate_groups |-> 1, duplicate_files |-> 2]

\* The paths of `rows`, in order: of all rows, and of those of group g.
PathsOf(rows) == [i \in DOMAIN rows |-> rows[i].file_path]

PathsOfGroup(rows, g) ==
    PathsOf(SelectSeq(rows, LAMBDA r : r.group_id = g))

\* The lines of a text output that follow the "-" at position i, up to the
\* next "-".
PathsAfter(lines, i) ==
    LET later == {j \in DOMAIN lines : j > i /\ lines[j].kind = "-"}
        last == IF later = {} THEN Len(lines)
                ELSE (CHOOSE j \in later : \A k \in later : j <= k) - 1
    IN [k \in 1..(last - i) |-> lines[i + k].path]

\* Every path written, in order.
WrittenPaths ==
    IF output.format = "text"
    THEN LET paths == SelectSeq(output.lines, LAMBDA l : l.kind = "path")
         IN [i \in DOMAIN paths |-> paths[i].path]
    ELSE IF output.format = "csv" THEN PathsOf(output.records)
    ELSE IF output.format = "db" THEN PathsOf(output.duplicate_files)
    ELSE <<>>

\* The groups written, each with the hash written for it where the format
\* has one.
WrittenGroups ==
    IF output.format = "text"
    THEN {[hash |-> <<>>, paths |-> PathsAfter(output.lines, i)] :
            i \in {j \in DOMAIN output.lines : output.lines[j].kind = "-"}}
    ELSE IF output.format = "csv"
    THEN {[hash |-> output.records[i].hash,
           paths |-> PathsOfGroup(output.records, output.records[i].group_id)] :
            i \in DOMAIN output.records}
    ELSE IF output.format = "db"
    THEN {[hash |-> output.duplicate_groups[i].hash,
           paths |-> PathsOfGroup(output.duplicate_files,
                                  output.duplicate_groups[i].id)] :
            i \in DOMAIN output.duplicate_groups}
    ELSE {}

\* The duplicate groups of the map, as a writer of the format shows them.
DuplicateGroups ==
    {[hash |-> IF output.format = "text" THEN <<>> ELSE Hex(h),
      paths |-> m[h]] : h \in DuplicateKeys}

====
